---- MODULE Spec2Model ----
(***************************************************************************)
(* Model of the configuration-rendering engine (package config):          *)
(*   - the process-wide template cache filled by LoadTemplate and read by  *)
(*     RenderTemplate, both as whole calls made one after the other        *)
(*     (SpecStore) and as goroutines interleaving line by line (SpecConc); *)
(*   - RenderLink's per-side label mappings (SpecLink);                    *)
(*   - the template functions ip and ipmask (SpecFunc).                    *)
(* Go strings are sequences of one-character strings, so strings.Split     *)
(* and string concatenation are computed, not assumed.                     *)
(***************************************************************************)
EXTENDS Integers, Sequences, FiniteSets, TLC

VARIABLES
    heap,       \* the Go map objects allocated by make(map[string]*template.Template)
    templates,  \* the package variable `templates`: NilMap or an index into heap
    nextId,     \* number of *template.Template objects ParseGlob has returned
    compiles,   \* per kind: how many times ParseGlob ran for it
    fs,         \* the template files: fs[<<kind, path>>] = they all parse
    last,       \* the last completed call and what it returned
    okKinds,    \* history: kinds for which some LoadTemplate call returned nil
    crashed,    \* the process died (panic or runtime fatal error)
    pc, pargs, pmap, pt, perr, \* goroutines inside LoadTemplate (SpecConc)
    writing,    \* map objects a goroutine is in the middle of assigning to
    link, res, prev,           \* RenderLink's input, its result, the result before
    fnArg, fnRes               \* a template function's argument and result

storeVars == <<heap, templates, nextId, compiles, fs>>
callVars  == <<last, okKinds, crashed>>
procVars  == <<pc, pargs, pmap, pt, perr, writing>>
linkVars  == <<link, res, prev>>
fnVars    == <<fnArg, fnRes>>
vars      == <<storeVars, callVars, procVars, linkVars, fnVars>>

-----------------------------------------------------------------------------
(* Bounds of the model *)

\* number of goroutines calling LoadTemplate at the same time
NProcs == 2
\* a link carries at most this many attributes
MaxLabels == 2
\* longest argument handed to a template function
MaxLen == 3

-----------------------------------------------------------------------------
(* Generic helpers: Go maps as functions, Go strings as character sequences *)

EmptyMap == [x \in {} |-> 0]

Put(m, k, v) == [x \in DOMAIN m \cup {k} |-> IF x = k THEN v ELSE m[x]]

\* strings.Index: position of the first sep in s, 0 when there is none
RECURSIVE IndexOf(_, _, _)
IndexOf(s, sep, i) ==
    IF i > Len(s) THEN 0
    ELSE IF s[i] = sep THEN i
    ELSE IndexOf(s, sep, i + 1)

\* strings.Split(s, sep) for a one-character sep: always at least one token
RECURSIVE Split(_, _)
Split(s, sep) ==
    LET i == IndexOf(s, sep, 1)
    IN  IF i = 0 THEN <<s>>
        ELSE <<SubSeq(s, 1, i - 1)>> \o Split(SubSeq(s, i + 1, Len(s)), sep)

\* all strings over alphabet of length at most n
RECURSIVE StringsUpTo(_, _)
StringsUpTo(alphabet, n) ==
    IF n = 0 THEN {<<>>}
    ELSE LET shorter == StringsUpTo(alphabet, n - 1)
         IN  shorter \cup {Append(s, c) : s \in shorter, c \in alphabet}

\* all orders in which the keys S can be visited (Go randomises map iteration)
RECURSIVE Orders(_)
Orders(S) ==
    IF S = {} THEN {<<>>}
    ELSE UNION {{<<x>> \o o : o \in Orders(S \ {x})} : x \in S}

-----------------------------------------------------------------------------
(* Template Store *)

Kinds == {"rare", "srl"}
Paths == {"templates", "custom"}

\* the nil map: the value of `templates` before the first LoadTemplate
NilMap == 0
\* the nil *template.Template
NilTemplate == 0

\* the map `templates` currently points to; reading a nil map reads an empty one
Cache == IF templates = NilMap THEN EmptyMap ELSE heap[templates]

\* templates[kind] as RenderTemplate reads it: the zero value when missing
Lookup(kind) == IF kind \in DOMAIN Cache THEN Cache[kind] ELSE NilTemplate

\* `_, ok := templates[kind]; ok`
CacheHitNever(m, kind) == FALSE
CacheHit(m, kind) == kind \in DOMAIN m

\* ct.ParseGlob(tp): a new template object, or (nil, err) when a file fails
\* to parse or none matches
ParseGlob(kind, path) ==
    IF fs[<<kind, path>>]
    THEN [t |-> nextId + 1, err |-> FALSE]
    ELSE [t |-> NilTemplate, err |-> TRUE]

\* t.ExecuteTemplate on the looked-up template: a nil *Template is
\* dereferenced (panic); otherwise the template runs and either produces
\* output or fails (unknown template name, a function returning an error)
ExecOutcomes(t) ==
    IF t = NilTemplate THEN {"panic"} ELSE {"snippet", "error"}

NoCall == [op |-> "none", kind |-> "", path |-> "", err |-> FALSE,
           compiled |-> FALSE, t |-> NilTemplate, outcome |-> ""]

\* LoadTemplate(kind, templatePath), the whole call
LoadTemplate(kind, path) ==
    /\ ~crashed
    /\ LET created == templates = NilMap
           heap1   == IF created THEN Append(heap, EmptyMap) ELSE heap
           tm1     == IF created THEN Len(heap1) ELSE templates
       IN  /\ templates' = tm1
           /\ IF CacheHit(heap1[tm1], kind)
              THEN /\ heap' = heap1
                   /\ UNCHANGED <<nextId, compiles>>
                   /\ last' = [NoCall EXCEPT !.op = "LoadTemplate", !.kind = kind,
                                             !.path = path]
                   /\ okKinds' = okKinds \cup {kind}
              ELSE LET r == ParseGlob(kind, path)
                   IN  /\ heap' = [heap1 EXCEPT ![tm1] = Put(@, kind, r.t)]
                       /\ nextId' = IF r.err THEN nextId ELSE nextId + 1
                       /\ compiles' = [compiles EXCEPT ![kind] = @ + 1]
                       /\ last' = [NoCall EXCEPT !.op = "LoadTemplate",
                                                 !.kind = kind, !.path = path,
                                                 !.err = r.err, !.compiled = TRUE]
                       /\ okKinds' = IF r.err THEN okKinds ELSE okKinds \cup {kind}
    /\ UNCHANGED <<fs, crashed, procVars, linkVars, fnVars>>

\* RenderTemplate(kind, name, labels), the whole call
RenderTemplate(kind) ==
    /\ ~crashed
    /\ \E o \in ExecOutcomes(Lookup(kind)) :
          /\ last' = [NoCall EXCEPT !.op = "RenderTemplate", !.kind = kind,
                                    !.t = Lookup(kind),
                                    !.err = (o = "error"), !.outcome = o]
          /\ crashed' = (o = "panic")
    /\ UNCHANGED <<storeVars, okKinds, procVars, linkVars, fnVars>>

\* the operator edits the template files of one kind directory: they now
\* parse, or no longer do
EditTemplates(kind, path) ==
    /\ ~crashed
    /\ fs' = [fs EXCEPT ![<<kind, path>>] = ~@]
    /\ UNCHANGED <<heap, templates, nextId, compiles, callVars, procVars,
                   linkVars, fnVars>>

NoLink == [Labels |-> EmptyMap]
NoSide == [built |-> FALSE, labels |-> EmptyMap]
NoRes  == [outcome |-> "none", A |-> NoSide, B |-> NoSide, l |-> EmptyMap]
NoFn   == [fn |-> "none", val |-> <<>>, outcome |-> "none"]

InitStore ==
    /\ heap = <<>>
    /\ templates = NilMap
    /\ nextId = 0
    /\ compiles = [k \in Kinds |-> 0]
    /\ last = NoCall
    /\ okKinds = {}
    /\ crashed = FALSE

InitProcsIdle ==
    /\ pc = [p \in 1..NProcs |-> "idle"]
    /\ pargs = [p \in 1..NProcs |-> [kind |-> "", path |-> ""]]
    /\ pmap = [p \in 1..NProcs |-> NilMap]
    /\ pt = [p \in 1..NProcs |-> NilTemplate]
    /\ perr = [p \in 1..NProcs |-> FALSE]
    /\ writing = {}

InitLinkIdle == link = NoLink /\ res = NoRes /\ prev = NoRes
InitFnIdle == fnArg = <<>> /\ fnRes = NoFn

InitSeq ==
    /\ InitStore
    /\ fs \in [Kinds \X Paths -> BOOLEAN]
    /\ InitProcsIdle /\ InitLinkIdle /\ InitFnIdle

NextSeq ==
    \/ \E k \in Kinds, p \in Paths : LoadTemplate(k, p)
    \/ \E k \in Kinds : RenderTemplate(k)
    \/ \E k \in Kinds, p \in Paths : EditTemplates(k, p)

SpecStore == InitSeq /\ [][NextSeq]_vars

-----------------------------------------------------------------------------
(* LoadTemplate called from several goroutines: one step per statement.    *)
(* The code takes no lock, so the statements of different callers          *)
(* interleave freely and the accesses to `templates` race.                 *)

Procs == 1..NProcs

\* the templates of every kind parse
AllParse == [x \in Kinds \X Paths |-> TRUE]

\* what the Go runtime may do when a map access finds the map being written
\* by another goroutine: throw "concurrent map writes" / "concurrent map read
\* and map write" (the check is best effort), or carry on
RaceOutcomes(m) == IF m \in writing THEN {TRUE, FALSE} ELSE {FALSE}

\* a goroutine enters LoadTemplate(kind, path)
Call(p, kind, path) ==
    /\ ~crashed /\ pc[p] = "idle"
    /\ pargs' = [pargs EXCEPT ![p] = [kind |-> kind, path |-> path]]
    /\ pc' = [pc EXCEPT ![p] = "L32"]
    /\ UNCHANGED <<storeVars, callVars, pmap, pt, perr, writing, linkVars, fnVars>>

\* line 32: if templates == nil
CheckNil(p) ==
    /\ ~crashed /\ pc[p] = "L32"
    /\ pc' = [pc EXCEPT ![p] = IF templates = NilMap THEN "L33" ELSE "L35"]
    /\ UNCHANGED <<storeVars, callVars, pargs, pmap, pt, perr, writing,
                   linkVars, fnVars>>

\* line 33: templates = make(map[string]*template.Template)
MakeMap(p) ==
    /\ ~crashed /\ pc[p] = "L33"
    /\ heap' = Append(heap, EmptyMap)
    /\ templates' = Len(heap) + 1
    /\ pc' = [pc EXCEPT ![p] = "L35"]
    /\ UNCHANGED <<nextId, compiles, fs, callVars, pargs, pmap, pt, perr,
                   writing, linkVars, fnVars>>

\* lines 35-37: if _, ok := templates[kind]; ok { return nil }
CheckCached(p) ==
    /\ ~crashed /\ pc[p] = "L35"
    /\ \E fatal \in RaceOutcomes(templates) :
          /\ crashed' = fatal
          /\ IF fatal THEN UNCHANGED <<pc, perr, okKinds>>
             ELSE IF CacheHit(Cache, pargs[p].kind)
             THEN /\ pc' = [pc EXCEPT ![p] = "done"]
                  /\ perr' = [perr EXCEPT ![p] = FALSE]
                  /\ okKinds' = okKinds \cup {pargs[p].kind}
             ELSE /\ pc' = [pc EXCEPT ![p] = "L44"]
                  /\ UNCHANGED <<perr, okKinds>>
    /\ UNCHANGED <<storeVars, last, pargs, pmap, pt, writing, linkVars, fnVars>>

\* lines 42-44, right-hand side: ct.ParseGlob(tp). The map operand of the
\* left-hand side templates[kind] is read before or after the call (Go does
\* not order a variable read against a function call): pmap[p] holds the map
\* read before it, or NilMap when it is read at the assignment.
Compile(p) ==
    /\ ~crashed /\ pc[p] = "L44"
    /\ LET r == ParseGlob(pargs[p].kind, pargs[p].path)
       IN  /\ pt' = [pt EXCEPT ![p] = r.t]
           /\ perr' = [perr EXCEPT ![p] = r.err]
           /\ nextId' = IF r.err THEN nextId ELSE nextId + 1
    /\ compiles' = [compiles EXCEPT ![pargs[p].kind] = @ + 1]
    /\ \E m \in {templates, NilMap} : pmap' = [pmap EXCEPT ![p] = m]
    /\ pc' = [pc EXCEPT ![p] = "L44w"]
    /\ UNCHANGED <<heap, templates, fs, callVars, pargs, writing, linkVars, fnVars>>

\* line 44, the assignment templates[kind] = ...: the map write begins
BeginStore(p) ==
    /\ ~crashed /\ pc[p] = "L44w"
    /\ LET m == IF pmap[p] = NilMap THEN templates ELSE pmap[p]
       IN  \E fatal \in RaceOutcomes(m) :
              /\ crashed' = fatal
              /\ pmap' = [pmap EXCEPT ![p] = m]
              /\ writing' = writing \cup {m}
              /\ pc' = [pc EXCEPT ![p] = "L44e"]
    /\ UNCHANGED <<storeVars, last, okKinds, pargs, pt, perr, linkVars, fnVars>>

\* line 44, the assignment templates[kind] = ...: the map write completes
EndStore(p) ==
    /\ ~crashed /\ pc[p] = "L44e"
    /\ heap' = [heap EXCEPT ![pmap[p]] = Put(@, pargs[p].kind, pt[p])]
    /\ writing' = writing \ {pmap[p]}
    /\ \E fatal \in (IF pmap[p] \in writing THEN {FALSE} ELSE {TRUE, FALSE}) :
          crashed' = fatal
    /\ pc' = [pc EXCEPT ![p] = "L45"]
    /\ UNCHANGED <<templates, nextId, compiles, fs, last, okKinds, pargs, pmap,
                   pt, perr, linkVars, fnVars>>

\* lines 45-49: if err != nil { return err }; return nil
Return(p) ==
    /\ ~crashed /\ pc[p] = "L45"
    /\ pc' = [pc EXCEPT ![p] = "done"]
    /\ okKinds' = IF perr[p] THEN okKinds ELSE okKinds \cup {pargs[p].kind}
    /\ UNCHANGED <<storeVars, last, crashed, pargs, pmap, pt, perr, writing,
                   linkVars, fnVars>>

InitConc ==
    /\ InitStore
    /\ fs = AllParse
    /\ InitProcsIdle /\ InitLinkIdle /\ InitFnIdle

NextConc ==
    \/ \E p \in Procs, k \in Kinds, path \in Paths : Call(p, k, path)
    \/ \E p \in Procs : CheckNil(p)
    \/ \E p \in Procs : MakeMap(p)
    \/ \E p \in Procs : CheckCached(p)
    \/ \E p \in Procs : Compile(p)
    \/ \E p \in Procs : BeginStore(p)
    \/ \E p \in Procs : EndStore(p)
    \/ \E p \in Procs : Return(p)

SpecConc == InitConc /\ [][NextConc]_vars

\* the goroutines that called LoadTemplate for kind k
Callers(k) == {p \in Procs : pc[p] # "idle" /\ pargs[p].kind = k}

\* C1: when two or more goroutines call LoadTemplate for the same
\* never-loaded kind, no interleaving crashes or compiles the kind twice, and
\* once they have all returned the cache holds one Template Set for the kind
\* and every caller got success.
C1_ConcurrentFirstLoadCompilesOnce ==
    \A k \in Kinds :
        Cardinality(Callers(k)) >= 2 =>
            /\ ~crashed
            /\ compiles[k] <= 1
            /\ (\A p \in Callers(k) : pc[p] = "done") =>
                   /\ compiles[k] = 1
                   /\ Lookup(k) # NilTemplate
                   /\ \A p \in Callers(k) : ~perr[p]

-----------------------------------------------------------------------------
(* Link Renderer *)

\* the two endpoint nodes: short name, kind label, system-IP label
NodeA == [ShortName |-> <<"r", "1">>, Kind |-> "rare", SystemIP |-> <<"a">>]
NodeB == [ShortName |-> <<"r", "2">>, Kind |-> "srl",  SystemIP |-> <<"b">>]

\* attribute names and values a link's labels are drawn from
LabelKeys == {"name", "linkNr", "ip", "systemip", "k", "k_far"}
LabelValues == {<<>>, <<"3">>, <<"x", ",", "y">>, <<"x", ",", "y", ",", "z">>}
LabelMaps ==
    UNION {[D -> LabelValues] :
             D \in {S \in SUBSET LabelKeys : Cardinality(S) <= MaxLabels}}

\* linkIPfromSystemIP(link): the two endpoint addresses, or an error
LinkIPOutcomes ==
    {[err |-> TRUE,  a |-> <<>>, b |-> <<>>],
     [err |-> FALSE, a |-> <<"1", "/", "8">>, b |-> <<"2", "/", "8">>]}

\* lines 106-111: switch len(r) { case 1, 2: l[k] = r; default: warn }
AcceptsTokensUpTo3(n) == n \in {1, 2, 3}
AcceptsTokens(n) == n \in {1, 2}

\* lines 116-119: linkNr := link.Labels["linkNr"], "_"-prefixed when not empty
LinkNrSuffixAlways(labels) ==
    <<"_">> \o (IF "linkNr" \in DOMAIN labels THEN labels["linkNr"] ELSE <<>>)
LinkNrSuffix(labels) ==
    LET linkNr == IF "linkNr" \in DOMAIN labels THEN labels["linkNr"] ELSE <<>>
    IN  IF Len(linkNr) > 0 THEN <<"_">> \o linkNr ELSE linkNr

\* fmt.Sprintf("to_%s%s", node.ShortName, linkNr)
DefaultName(node, suffix) == <<"t", "o", "_">> \o node.ShortName \o suffix

\* lines 93-122: the pair mapping l, attribute name -> [value for A, value for B]
GatherPairs(lk, ipA, ipB) ==
    LET base == Put(Put(EmptyMap, "ip", <<ipA, ipB>>),
                    "systemip", <<NodeA.SystemIP, NodeB.SystemIP>>)
        kept == {k \in DOMAIN lk.Labels :
                    AcceptsTokens(Len(Split(lk.Labels[k], ",")))}
        l1   == [k \in DOMAIN base \cup kept |->
                    IF k \in kept THEN Split(lk.Labels[k], ",") ELSE base[k]]
        sfx  == LinkNrSuffix(lk.Labels)
    IN  IF "name" \in DOMAIN l1 THEN l1
        ELSE Put(l1, "name", <<DefaultName(NodeB, sfx), DefaultName(NodeA, sfx)>>)

\* lines 135-141: side A's labels, the keys of l visited in the given order
RECURSIVE SideA(_, _, _)
SideA(l, order, curL) ==
    IF order = <<>> THEN curL
    ELSE LET k  == Head(order)
             v  == l[k]
             c1 == Put(curL, k, v[1])
             c2 == IF Len(v) > 1 THEN Put(c1, k \o "_far", v[2]) ELSE c1
         IN  SideA(l, Tail(order), c2)

\* lines 144-152: side B's labels, the keys of l visited in the given order
RECURSIVE SideB(_, _, _)
SideB(l, order, curL) ==
    IF order = <<>> THEN curL
    ELSE LET k  == Head(order)
             v  == l[k]
             c  == IF Len(v) = 1 THEN Put(curL, k, v[1])
                   ELSE Put(Put(curL, k, v[2]), k \o "_far", v[1])
         IN  SideB(l, Tail(order), c)

\* the label mappings `for k, v := range l` can build for each side
SidesA(l) == {SideA(l, o, EmptyMap) : o \in Orders(DOMAIN l)}
SidesB(l) == {SideB(l, o, EmptyMap) : o \in Orders(DOMAIN l)}

Built(labels) == [built |-> TRUE, labels |-> labels]

\* RenderLink(link), the whole call; the previous call's result is kept in prev
RenderLink ==
    /\ ~crashed
    /\ prev' = res
    /\ \E ips \in LinkIPOutcomes :
          IF ips.err
          THEN res' = [NoRes EXCEPT !.outcome = "error"]
          ELSE LET l == GatherPairs(link, ips.a, ips.b)
               IN  \E a \in SidesA(l), ra \in ExecOutcomes(Lookup(NodeA.Kind)) :
                      IF ra # "snippet"
                      THEN res' = [outcome |-> ra, A |-> Built(a), B |-> NoSide,
                                   l |-> l]
                      ELSE \E b \in SidesB(l),
                              rb \in ExecOutcomes(Lookup(NodeB.Kind)) :
                                 res' = [outcome |-> IF rb = "snippet" THEN "ok"
                                                     ELSE rb,
                                         A |-> Built(a), B |-> Built(b), l |-> l]
    /\ crashed' = (res'.outcome = "panic")
    /\ UNCHANGED <<storeVars, last, okKinds, procVars, link, fnVars>>

\* the cache before any LoadTemplate call, and after LoadTemplate has
\* succeeded once for every kind
InitStoreLoaded ==
    /\ heap = <<[k \in Kinds |-> IF k = "rare" THEN 1 ELSE 2]>>
    /\ templates = 1
    /\ nextId = 2
    /\ compiles = [k \in Kinds |-> 1]
    /\ last = NoCall
    /\ okKinds = Kinds
    /\ crashed = FALSE

InitLink ==
    /\ InitStore \/ InitStoreLoaded
    /\ fs = AllParse
    /\ link \in {[Labels |-> m] : m \in LabelMaps}
    /\ res = NoRes /\ prev = NoRes
    /\ InitProcsIdle /\ InitFnIdle

\* the orchestrator renders the link, and may render the same link once more
Render == prev.outcome = "none" /\ RenderLink

NextLink == Render

SpecLink == InitLink /\ [][NextLink]_vars

-----------------------------------------------------------------------------
(* Function Library: ip and ipmask *)

FnAlphabet == {"1", "2", "/"}

\* "ip": a := strings.Split(s, "/"); return a[0], nil
Ip(s) == [fn |-> "ip", val |-> Split(s, "/")[1], outcome |-> "value"]

\* "ipmask": a := strings.Split(s, "/"); return a[1], nil
\* indexing past the end of a is a run-time panic (index out of range)
Ipmask(s) ==
    LET a == Split(s, "/")
    IN  IF Len(a) < 2
        THEN [fn |-> "ipmask", val |-> <<>>, outcome |-> "panic"]
        ELSE [fn |-> "ipmask", val |-> a[2], outcome |-> "value"]

CallIp ==
    /\ fnRes' = Ip(fnArg)
    /\ UNCHANGED <<storeVars, callVars, procVars, linkVars, fnArg>>

CallIpmask ==
    /\ fnRes' = Ipmask(fnArg)
    /\ UNCHANGED <<storeVars, callVars, procVars, linkVars, fnArg>>

InitFunc ==
    /\ InitStore
    /\ fs = AllParse
    /\ fnArg \in StringsUpTo(FnAlphabet, MaxLen)
    /\ fnRes = NoFn
    /\ InitProcsIdle /\ InitLinkIdle

NextFunc == CallIp \/ CallIpmask

SpecFunc == InitFunc /\ [][NextFunc]_vars

-----------------------------------------------------------------------------
(* Claims about the Template Store, calls made one after the other *)

\* C2: after a LoadTemplate call fails on a template that does not parse,
\* the cache has no entry for that kind, so a LoadTemplate call that returns
\* success always leaves a compiled Template Set in the slot.
C2_FailedLoadLeavesSlotEmpty ==
    /\ (last.op = "LoadTemplate" /\ last.err) => last.kind \notin DOMAIN Cache
    /\ (last.op = "LoadTemplate" /\ ~last.err) => Lookup(last.kind) # NilTemplate

\* C3: a RenderTemplate call naming a kind with no Template Set returns an
\* error and no snippet, and never crashes the process.
C3_RenderWithoutTemplateSetReturnsError ==
    (last.op = "RenderTemplate" /\ last.t = NilTemplate)
        => (last.outcome = "error" /\ ~crashed)

\* C9: once a LoadTemplate call for a kind has returned success, no later
\* step compiles that kind again or changes the object cached for it, and
\* every later LoadTemplate call for it returns success.
C9_LoadIsIdempotent ==
    [][\A k \in okKinds :
          /\ compiles'[k] = compiles[k]
          /\ Lookup(k)' = Lookup(k)
          /\ (last'.op = "LoadTemplate" /\ last'.kind = k) => ~last'.err]_vars

\* C9 witness: a kind was compiled once, another kind was loaded as well, and
\* the last call is a repeated load of the first kind, served from the cache
\* with a different path.
C9_Witness ==
    /\ last.op = "LoadTemplate" /\ ~last.compiled /\ ~last.err
    /\ last.kind = "rare" /\ last.path = "custom"
    /\ ~fs[<<"rare", "custom">>]
    /\ compiles["rare"] = 1 /\ Lookup("rare") # NilTemplate
    /\ compiles["srl"] = 1 /\ Lookup("srl") # NilTemplate

-----------------------------------------------------------------------------
(* Claims about RenderLink *)

TokensOf(k) == Split(link.Labels[k], ",")
Far(k) == k \o "_far"
Has(m, k, v) == k \in DOMAIN m /\ m[k] = v
Reserved == {"name", "ip", "systemip"}

\* "to_" + the peer's short name, + "_" + linkNr when linkNr is set and not empty
ExpectedName(peer) ==
    <<"t", "o", "_">> \o peer.ShortName \o
        (IF "linkNr" \in DOMAIN link.Labels /\ link.Labels["linkNr"] # <<>>
         THEN <<"_">> \o link.Labels["linkNr"] ELSE <<>>)

\* C4: for every link attribute k with two tokens "x,y", side A's mapping has
\* k = x and k_far = y and side B's has k = y and k_far = x, whatever other
\* attributes the link carries.
C4_TwoTokensNearFar ==
    \A k \in DOMAIN link.Labels :
        Len(TokensOf(k)) = 2 =>
            /\ res.A.built => /\ Has(res.A.labels, k, TokensOf(k)[1])
                              /\ Has(res.A.labels, Far(k), TokensOf(k)[2])
            /\ res.B.built => /\ Has(res.B.labels, k, TokensOf(k)[2])
                              /\ Has(res.B.labels, Far(k), TokensOf(k)[1])

\* C5: for every link attribute k whose value has no comma, both sides'
\* mappings give k that value, and k_far is in a side's mapping only as an
\* entry of its own, never produced for k.
C5_OneTokenSharedNoFar ==
    \A k \in DOMAIN link.Labels :
        Len(TokensOf(k)) = 1 =>
            \A side \in {res.A, res.B} :
                side.built =>
                    /\ Has(side.labels, k, link.Labels[k])
                    /\ Far(k) \in DOMAIN side.labels => Far(k) \in DOMAIN res.l

\* C6 as stated: every link attribute that splits into 3 or more tokens,
\* whatever its name, is absent from both sides' mappings, and so is its
\* _far key.
C6_SkippedAttributeAbsent ==
    \A k \in DOMAIN link.Labels :
        Len(TokensOf(k)) \notin {1, 2} =>
            \A side \in {res.A, res.B} :
                side.built => /\ k \notin DOMAIN side.labels
                              /\ Far(k) \notin DOMAIN side.labels

\* C6 amended: a link attribute that splits into 3 or more tokens contributes
\* nothing. Under a reserved name the pair mapping keeps the assigned
\* addresses (ip) or gets the synthesized names (name); under any other name
\* it has no entry in the pair mapping, a side's mapping holds k only as the
\* far key of another two-valued entry, and k_far only as an entry of its own.
C6_SkippedAttributeContributesNothing ==
    \A k \in DOMAIN link.Labels :
        (Len(TokensOf(k)) \notin {1, 2} /\ res.A.built) =>
            /\ k = "ip" => res.l[k] = <<<<"1", "/", "8">>, <<"2", "/", "8">>>>
            /\ k = "systemip" => res.l[k] = <<NodeA.SystemIP, NodeB.SystemIP>>
            /\ k = "name" => res.l[k] = <<ExpectedName(NodeB), ExpectedName(NodeA)>>
            /\ k \notin Reserved => k \notin DOMAIN res.l
            /\ \A side \in {res.A, res.B} :
                  (side.built /\ k \notin Reserved) =>
                      /\ k \in DOMAIN side.labels =>
                            \E j \in DOMAIN res.l :
                                Len(res.l[j]) = 2 /\ Far(j) = k
                      /\ Far(k) \in DOMAIN side.labels => Far(k) \in DOMAIN res.l

\* C6 witness: a link whose attributes k and name both split into three
\* tokens was rendered successfully; k is in neither side's mapping and the
\* names are the synthesized ones.
C6_Witness ==
    /\ res.outcome = "ok"
    /\ DOMAIN link.Labels = {"k", "name"}
    /\ Len(TokensOf("k")) = 3 /\ Len(TokensOf("name")) = 3
    /\ "k" \notin DOMAIN res.A.labels /\ "k" \notin DOMAIN res.B.labels
    /\ res.A.labels["name"] = <<"t", "o", "_", "r", "2">>
    /\ res.B.labels["name"] = <<"t", "o", "_", "r", "1">>

\* C7: when the link carries no name attribute, side A is named "to_" + B's
\* short name and side B "to_" + A's short name, followed by "_" + linkNr
\* exactly when linkNr is present and not empty (to_r2 / to_r1 without it).
C7_DefaultNames ==
    "name" \notin DOMAIN link.Labels =>
        /\ res.A.built => Has(res.A.labels, "name", ExpectedName(NodeB))
        /\ res.B.built => Has(res.B.labels, "name", ExpectedName(NodeA))
        /\ (res.A.built /\ "linkNr" \notin DOMAIN link.Labels) =>
              res.A.labels["name"] = <<"t", "o", "_", "r", "2">>
        /\ (res.B.built /\ "linkNr" \notin DOMAIN link.Labels) =>
              res.B.labels["name"] = <<"t", "o", "_", "r", "1">>

\* C7 witness: a link carrying only linkNr = "3" was rendered successfully and
\* the sides are named to_r2_3 and to_r1_3.
C7_Witness ==
    /\ res.outcome = "ok"
    /\ DOMAIN link.Labels = {"linkNr"} /\ link.Labels["linkNr"] = <<"3">>
    /\ res.A.labels["name"] = <<"t", "o", "_", "r", "2", "_", "3">>
    /\ res.B.labels["name"] = <<"t", "o", "_", "r", "1", "_", "3">>

\* C10: two renders of the same link build identical side-A and side-B
\* mappings, whatever order the attribute map is iterated in.
C10_SidesDependOnInputsOnly ==
    /\ (prev.A.built /\ res.A.built) => res.A.labels = prev.A.labels
    /\ (prev.B.built /\ res.B.built) => res.B.labels = prev.B.labels

-----------------------------------------------------------------------------
(* Claims about the Function Library *)

\* C8: ipmask(v) returns the substring after "/" when v contains a "/", and
\* for a v without "/" it returns an error value, never a crash.
C8_IpmaskFailsWithoutCrash ==
    fnRes.fn = "ipmask" =>
        LET i == IndexOf(fnArg, "/", 1)
        IN  IF i = 0 THEN fnRes.outcome = "error"
            ELSE /\ fnRes.outcome = "value"
                 /\ IndexOf(SubSeq(fnArg, i + 1, Len(fnArg)), "/", 1) = 0 =>
                       fnRes.val = SubSeq(fnArg, i + 1, Len(fnArg))

====
